---- MODULE Spec2Model ----
(***************************************************************************)
(* Model of the pattern-detection and decision engine of market_analysis:  *)
(* PatternAnalyzer (backend/src/pattern_analyzer.py) and DecisionAgent     *)
(* (backend/src/decision_agent.py), and of the candle cache of             *)
(* YahooFinanceFetcher (backend/src/data_fetcher.py).                      *)
(*                                                                         *)
(* Prices are fixed-point integers.  Arithmetic on them is exact: the      *)
(* binary representation error of Python floats (about 1e-14 at a price of *)
(* 100) is not modelled, the decimal rounding round(x, 6) is.              *)
(***************************************************************************)
EXTENDS Integers, Sequences, FiniteSets, TLC

VARIABLES
    pc,         \* position of the request: ("new" ->) "ready" -> "analyzed" /
                \* "decided"
    lookback,   \* PatternAnalyzer.lookback
    equal_tolerance,    \* PatternAnalyzer.equal_tolerance
    candles,    \* the candle list handed to analyze
    signals,    \* the signal list (output of analyze, input of evaluate_signals)
    result,     \* the suggestion returned by evaluate_signals
    parts,      \* the events returned by each detector call of analyze
    order,      \* the detector calls of analyze that have returned, in order
    cache,      \* YahooFinanceFetcher._cache
    now,        \* datetime.utcnow(), in minutes
    returned,   \* the outcome of the last call of YahooFinanceFetcher.fetch
    alerts,     \* the list returned by AlertGenerator.generate_alerts
    last_alerted_zones, \* the dict of the legacy watcher (its keys)
    new_alerts, \* the list returned by the last generate_alerts of the watcher
    alerted,    \* history: the zone keys the watcher has alerted, in order
    skipped,    \* history: the zone keys the last generate_alerts passed over
    polls       \* the symbols the watcher has gone through

analyzerVars == <<parts, order>>

fetcherVars == <<cache, now, returned>>

watcherVars == <<last_alerted_zones, new_alerts, alerted, skipped, polls>>

vars == <<pc, lookback, equal_tolerance, candles, signals, result, parts, order,
          cache, now, returned, alerts, last_alerted_zones, new_alerts, alerted,
          skipped, polls>>

None == "None"

\* An optional number (Candle.volume) is <<>> when absent and <<v>> when present
Absent == <<>>

Some(v) == <<v>>

\* analyze before its first detector call
NoParts == [equal_highs |-> <<>>, equal_lows |-> <<>>, fvg |-> <<>>, order_blocks |-> <<>>]

AnalyzerIdle == parts = NoParts /\ order = <<>>

\* a fetcher as constructed, never called
EmptyCache == [key \in {} |-> <<>>]

NoCall == [status |-> "none", limit |-> 0, candles |-> <<>>]

FetcherIdle == cache = EmptyCache /\ now = 0 /\ returned = NoCall

\* no alert text generated yet
AlertsIdle == alerts = <<>>

\* the legacy watcher before its first poll
WatcherIdle ==
    /\ last_alerted_zones = {}
    /\ new_alerts = <<>>
    /\ alerted = <<>>
    /\ skipped = <<>>
    /\ polls = 0

\* ------------------------------------------------------------------------
\* Bounds of the model
\* ------------------------------------------------------------------------
MaxSignals == 4     \* longest crafted signal list given to evaluate_signals

MaxCandles == 5     \* longest candle list given to analyze

\* ------------------------------------------------------------------------
\* Units.  A candle price is an integer number of 1e-7 price units, one
\* digit finer than the 6 decimals that the detectors round to.
\* ------------------------------------------------------------------------
PriceUnit == 10 ^ 7             \* 1.0

Micro == PriceUnit \div 10 ^ 6  \* 1e-6, the grid of round(x, 6)

DefaultLookback == 100          \* PatternAnalyzer.__init__: lookback = 100

DefaultTolerance == 10000       \* PatternAnalyzer.__init__: equal_tolerance = 1e-3

\* ------------------------------------------------------------------------
\* Generic helpers
\* ------------------------------------------------------------------------
Abs(x) == IF x < 0 THEN -x ELSE x

Max2(a, b) == IF a >= b THEN a ELSE b

Min2(a, b) == IF a <= b THEN a ELSE b

Last(s) == s[Len(s)]

\* All sequences over S of length 0..n
SeqsUpTo(S, n) == UNION {[1..k -> S] : k \in 0..n}

\* ------------------------------------------------------------------------
\* DecisionAgent (decision_agent.py)
\*
\* A suggestion's stop_loss and take_profit are rationals with denominator
\* 2000 when the gap bounds are integers; they are stored multiplied by
\* PriceScale, so that x * 1.001 and (a + b) / 2 are exact.
\* ------------------------------------------------------------------------
PriceScale == 2 * 1000

IsPool(sig, side) == sig.type = "LiquidityPool" /\ sig.side = side

IsFVG(sig, side) == sig.type = "FairValueGap" /\ sig.side = side

IsOB(sig, side) == sig.type = "OrderBlock" /\ sig.side = side

\* line 9: any(type == LiquidityPool and side == "buy")
has_sell_liquidity(sigs) == \E k \in 1..Len(sigs) : IsPool(sigs[k], "buy")

\* line 10: any(type == LiquidityPool and side == "sell")
has_buy_liquidity(sigs) == \E k \in 1..Len(sigs) : IsPool(sigs[k], "sell")

bullish_obs(sigs) == SelectSeq(sigs, LAMBDA s : IsOB(s, "bullish"))

bearish_obs(sigs) == SelectSeq(sigs, LAMBDA s : IsOB(s, "bearish"))

bullish_fvg(sigs) == SelectSeq(sigs, LAMBDA s : IsFVG(s, "bullish"))

bearish_fvg(sigs) == SelectSeq(sigs, LAMBDA s : IsFVG(s, "bearish"))

has_bullish_fvg(sigs) == Len(bullish_fvg(sigs)) > 0

has_bearish_fvg(sigs) == Len(bearish_fvg(sigs)) > 0

\* the target put on the side of the stop
calc_2r_TowardsStop(entry, sl, direction) ==
    LET risk == Abs(entry - sl)
    IN  IF direction = "long" THEN entry - 2 * risk ELSE entry + 2 * risk

\* lines 33-38 (entry and sl scaled by PriceScale, so is the value)
calc_2r(entry, sl, direction) ==
    LET risk == Abs(entry - sl)
    IN  IF direction = "long" THEN entry + 2 * risk ELSE entry - 2 * risk

\* obs[:3]: the order blocks quoted in the reason text
Top3(obs) == SubSeq(obs, 1, Min2(3, Len(obs)))

ObInfo(obs) == [k \in 1..Len(Top3(obs)) |-> <<obs[k].zone, obs[k].time>>]

\* lines 24-30
DefaultResult ==
    [action |-> "none", entry_zone |-> None, stop_loss |-> None,
     take_profit |-> None, reason |-> <<"No immediate action">>]

\* a short setup built from the first bearish gap instead of the last
ShortSetup_FirstGap(sigs) ==
    LET sig         == Head(bearish_fvg(sigs))
        entry_zone  == <<sig.gap_low, sig.gap_high>>
        entry       == (sig.gap_low + sig.gap_high) * (PriceScale \div 2)
        stop_loss   == sig.gap_high * ((PriceScale * 1001) \div 1000)
        take_profit == calc_2r(entry, stop_loss, "short")
    IN  [action |-> "sell", entry_zone |-> entry_zone, stop_loss |-> stop_loss,
         take_profit |-> take_profit,
         reason |-> <<"Bearish setup", entry_zone, stop_loss, take_profit,
                      ObInfo(bearish_obs(sigs))>>]

\* lines 42-67
ShortSetup(sigs) ==
    LET sig         == Last(bearish_fvg(sigs))
        entry_zone  == <<sig.gap_low, sig.gap_high>>
        entry       == (sig.gap_low + sig.gap_high) * (PriceScale \div 2)
        stop_loss   == sig.gap_high * ((PriceScale * 1001) \div 1000)
        take_profit == calc_2r(entry, stop_loss, "short")
    IN  [action |-> "sell", entry_zone |-> entry_zone, stop_loss |-> stop_loss,
         take_profit |-> take_profit,
         reason |-> <<"Bearish setup", entry_zone, stop_loss, take_profit,
                      ObInfo(bearish_obs(sigs))>>]

\* a long setup whose stop is put under the gap high instead of the gap low
LongSetup_StopAtHigh(sigs) ==
    LET sig         == Last(bullish_fvg(sigs))
        entry_zone  == <<sig.gap_low, sig.gap_high>>
        entry       == (sig.gap_low + sig.gap_high) * (PriceScale \div 2)
        stop_loss   == sig.gap_high * ((PriceScale * 999) \div 1000)
        take_profit == calc_2r(entry, stop_loss, "long")
    IN  [action |-> "buy", entry_zone |-> entry_zone, stop_loss |-> stop_loss,
         take_profit |-> take_profit,
         reason |-> <<"Bullish setup", entry_zone, stop_loss, take_profit,
                      ObInfo(bullish_obs(sigs))>>]

\* lines 70-95
LongSetup(sigs) ==
    LET sig         == Last(bullish_fvg(sigs))
        entry_zone  == <<sig.gap_low, sig.gap_high>>
        entry       == (sig.gap_low + sig.gap_high) * (PriceScale \div 2)
        stop_loss   == sig.gap_low * ((PriceScale * 999) \div 1000)
        take_profit == calc_2r(entry, stop_loss, "long")
    IN  [action |-> "buy", entry_zone |-> entry_zone, stop_loss |-> stop_loss,
         take_profit |-> take_profit,
         reason |-> <<"Bullish setup", entry_zone, stop_loss, take_profit,
                      ObInfo(bullish_obs(sigs))>>]

\* the two branches tested in the opposite order
evaluate_signals_LongFirst(sigs) ==
    IF has_sell_liquidity(sigs) /\ has_bullish_fvg(sigs) THEN LongSetup(sigs)
    ELSE IF has_buy_liquidity(sigs) /\ has_bearish_fvg(sigs) THEN ShortSetup(sigs)
    ELSE DefaultResult

\* lines 7-96
evaluate_signals(sigs) ==
    IF has_buy_liquidity(sigs) /\ has_bearish_fvg(sigs) THEN ShortSetup(sigs)
    ELSE IF has_sell_liquidity(sigs) /\ has_bullish_fvg(sigs) THEN LongSetup(sigs)
    ELSE DefaultResult

\* ------------------------------------------------------------------------
\* PatternAnalyzer (pattern_analyzer.py)
\*
\* A candle is [time, open, high, low, close, volume]; indices are 0-based
\* as in the source, At(cs, i) is candles[i].
\* ------------------------------------------------------------------------
At(cs, i) == cs[i + 1]

\* round(x, 6): nearest multiple of 1e-6, ties to even
round6(x) ==
    LET q == x \div Micro
        r == x % Micro
    IN  IF 2 * r < Micro THEN q * Micro
        ELSE IF 2 * r > Micro THEN (q + 1) * Micro
        ELSE IF q % 2 = 0 THEN q * Micro ELSE (q + 1) * Micro

\* the inner loop starting at i + 1 for the following values of i
RECURSIVE PairLoop_Adjacent(_, _, _)
PairLoop_Adjacent(i, j, n) ==
    IF i >= n - 1 THEN <<>>
    ELSE IF j >= n THEN PairLoop_Adjacent(i + 1, i + 2, n)
    ELSE <<<<i, j>>>> \o PairLoop_Adjacent(i, j + 1, n)

\* the pairs visited by
\*   for i in range(start, n - 1): for j in range(i + 2, n)
\* in visiting order, from the position (i, j) on
RECURSIVE PairLoop(_, _, _)
PairLoop(i, j, n) ==
    IF i >= n - 1 THEN <<>>
    ELSE IF j >= n THEN PairLoop(i + 1, i + 3, n)
    ELSE <<<<i, j>>>> \o PairLoop(i, j + 1, n)

\* the breach check without its second loop (the candles before i)
breached_high_BetweenOnly(cs, start, i, j, tol) ==
    LET price_i == round6(At(cs, i).high)
        price_j == round6(At(cs, j).high)
    IN  \E k \in (i + 1)..(j - 1) : At(cs, k).high > Max2(price_i, price_j) + tol

\* lines 47-56: the two breach loops of _detect_equal_highs
breached_high(cs, start, i, j, tol) ==
    LET price_i == round6(At(cs, i).high)
        price_j == round6(At(cs, j).high)
    IN  \/ \E k \in (i + 1)..(j - 1) : At(cs, k).high > Max2(price_i, price_j) + tol
        \/ \E k \in start..(i - 1) : At(cs, k).high > Max2(price_i, price_j) + tol

\* lines 45-57: the pair (i, j) appends an event
emits_high(cs, start, i, j, tol) ==
    LET price_i == round6(At(cs, i).high)
        price_j == round6(At(cs, j).high)
    IN  /\ Abs(price_i - price_j) <= tol
        /\ ~breached_high(cs, start, i, j, tol)

\* the event carrying the price of the later candle of the pair
detect_equal_highs_PriceOfLater(cs, start, tol) ==
    LET pairs == SelectSeq(PairLoop(start, start + 2, Len(cs)),
                           LAMBDA p : emits_high(cs, start, p[1], p[2], tol))
    IN  [k \in 1..Len(pairs) |->
            [type |-> "LiquidityPool", side |-> "buy",
             price |-> round6(At(cs, pairs[k][2]).high),
             times |-> <<At(cs, pairs[k][1]).time, At(cs, pairs[k][2]).time>>]]

\* lines 37-64
detect_equal_highs(cs, start, tol) ==
    LET pairs == SelectSeq(PairLoop(start, start + 2, Len(cs)),
                           LAMBDA p : emits_high(cs, start, p[1], p[2], tol))
    IN  [k \in 1..Len(pairs) |->
            [type |-> "LiquidityPool", side |-> "buy",
             price |-> round6(At(cs, pairs[k][1]).high),
             times |-> <<At(cs, pairs[k][1]).time, At(cs, pairs[k][2]).time>>]]

\* lines 76-85: the two breach loops of _detect_equal_lows
breached_low(cs, start, i, j, tol) ==
    LET price_i == round6(At(cs, i).low)
        price_j == round6(At(cs, j).low)
    IN  \/ \E k \in (i + 1)..(j - 1) : At(cs, k).low < Min2(price_i, price_j) - tol
        \/ \E k \in start..(i - 1) : At(cs, k).low < Min2(price_i, price_j) - tol

\* lines 74-86
emits_low(cs, start, i, j, tol) ==
    LET price_i == round6(At(cs, i).low)
        price_j == round6(At(cs, j).low)
    IN  /\ Abs(price_i - price_j) <= tol
        /\ ~breached_low(cs, start, i, j, tol)

\* lines 66-93
detect_equal_lows(cs, start, tol) ==
    LET pairs == SelectSeq(PairLoop(start, start + 2, Len(cs)),
                           LAMBDA p : emits_low(cs, start, p[1], p[2], tol))
    IN  [k \in 1..Len(pairs) |->
            [type |-> "LiquidityPool", side |-> "sell",
             price |-> round6(At(cs, pairs[k][1]).low),
             times |-> <<At(cs, pairs[k][1]).time, At(cs, pairs[k][2]).time>>]]

\* A candle time is an instant, in minutes since 2024-11-03 00:00 UTC, the
\* day on which America/New_York leaves daylight saving time at 06:00 UTC.
\* astimezone(eastern), reduced to the minute of the local day.
astimezone_eastern(t) ==
    LET utcoffset == IF t < 6 * 60 THEN -4 * 60 ELSE -5 * 60
    IN  (t + utcoffset) % (24 * 60)

\* the windows closed at their upper end
in_silver_window_Closed(m) ==
    \/ (3 * 60 <= m /\ m <= 4 * 60)
    \/ (10 * 60 <= m /\ m <= 11 * 60)
    \/ (14 * 60 <= m /\ m <= 15 * 60)

\* lines 130-133, on the minute of the local day (h = hour + minute / 60)
in_silver_window(m) ==
    \/ (3 * 60 <= m /\ m < 4 * 60)
    \/ (10 * 60 <= m /\ m < 11 * 60)
    \/ (14 * 60 <= m /\ m < 15 * 60)

Bullish(c) == c.close > c.open

Bearish(c) == c.close < c.open

\* a gap also where the third candle only touches the first (>= for >)
fvg_at_Touching(cs, i) ==
    LET c0 == At(cs, i)
        c1 == At(cs, i + 1)
        c2 == At(cs, i + 2)
        bullish == Bullish(c0) /\ Bullish(c1) /\ Bullish(c2)
        bearish == Bearish(c0) /\ Bearish(c1) /\ Bearish(c2)
    IN  IF bullish /\ c2.low >= c0.high
        THEN IF in_silver_window(astimezone_eastern(c2.time))
             THEN <<[type |-> "FairValueGap", side |-> "bullish",
                     gap_low |-> c0.high, gap_high |-> c2.low, time |-> c2.time]>>
             ELSE <<>>
        ELSE IF bearish /\ c2.high <= c0.low
        THEN IF in_silver_window(astimezone_eastern(c2.time))
             THEN <<[type |-> "FairValueGap", side |-> "bearish",
                     gap_low |-> c2.high, gap_high |-> c0.low, time |-> c2.time]>>
             ELSE <<>>
        ELSE <<>>

\* the bounds of a bearish gap written in the order of a bullish one
fvg_at_BearishBoundsSwapped(cs, i) ==
    LET c0 == At(cs, i)
        c1 == At(cs, i + 1)
        c2 == At(cs, i + 2)
        bullish == Bullish(c0) /\ Bullish(c1) /\ Bullish(c2)
        bearish == Bearish(c0) /\ Bearish(c1) /\ Bearish(c2)
    IN  IF bullish /\ c2.low > c0.high
        THEN IF in_silver_window(astimezone_eastern(c2.time))
             THEN <<[type |-> "FairValueGap", side |-> "bullish",
                     gap_low |-> c0.high, gap_high |-> c2.low, time |-> c2.time]>>
             ELSE <<>>
        ELSE IF bearish /\ c2.high < c0.low
        THEN IF in_silver_window(astimezone_eastern(c2.time))
             THEN <<[type |-> "FairValueGap", side |-> "bearish",
                     gap_low |-> c0.low, gap_high |-> c2.high, time |-> c2.time]>>
             ELSE <<>>
        ELSE <<>>

\* lines 104-127: the events appended for index i (none or one)
fvg_at(cs, i) ==
    LET c0 == At(cs, i)
        c1 == At(cs, i + 1)
        c2 == At(cs, i + 2)
        bullish == Bullish(c0) /\ Bullish(c1) /\ Bullish(c2)
        bearish == Bearish(c0) /\ Bearish(c1) /\ Bearish(c2)
    IN  IF bullish /\ c2.low > c0.high
        THEN IF in_silver_window(astimezone_eastern(c2.time))
             THEN <<[type |-> "FairValueGap", side |-> "bullish",
                     gap_low |-> c0.high, gap_high |-> c2.low, time |-> c2.time]>>
             ELSE <<>>
        ELSE IF bearish /\ c2.high < c0.low
        THEN IF in_silver_window(astimezone_eastern(c2.time))
             THEN <<[type |-> "FairValueGap", side |-> "bearish",
                     gap_low |-> c2.high, gap_high |-> c0.low, time |-> c2.time]>>
             ELSE <<>>
        ELSE <<>>

\* lines 95-128: for i in range(start, len(candles) - 2)
RECURSIVE fvg_loop(_, _)
fvg_loop(cs, i) ==
    IF i >= Len(cs) - 2 THEN <<>> ELSE fvg_at(cs, i) \o fvg_loop(cs, i + 1)

detect_fvg(cs, start) == fvg_loop(cs, start)

\* line 141: min_body_size = 0.0002, as a fraction
min_body_size == <<2, 10000>>

\* line 142
min_volume == 1000

\* line 148: body_size = abs(close - open) / open, as the fraction <<num, den>>
body_size_of(c) == <<Abs(c.close - c.open), c.open>>

\* line 151: the candidate is skipped
too_small(c) ==
    LET body_size == body_size_of(c)
    IN  \/ body_size[1] * min_body_size[2] < min_body_size[1] * body_size[2]
        \/ (c.volume # Absent /\ c.volume[1] # 0 /\ c.volume[1] < min_volume)

\* a block on two candles of the displacement instead of three
order_block_at_TwoFollowers(cs, i) ==
    LET c0 == At(cs, i)
        c1 == At(cs, i + 1)
        c2 == At(cs, i + 2)
        block(side) == [type |-> "OrderBlock", side |-> side,
                        zone |-> <<c0.low, c0.high>>, time |-> c0.time,
                        body_size |-> body_size_of(c0), volume |-> c0.volume]
    IN  IF too_small(c0) THEN <<>>
        ELSE IF Bullish(c1) /\ Bullish(c2)
        THEN IF Bearish(c0) THEN <<block("bullish")>> ELSE <<>>
        ELSE IF Bearish(c1) /\ Bearish(c2)
        THEN IF Bullish(c0) THEN <<block("bearish")>> ELSE <<>>
        ELSE <<>>

\* lines 145-176: the events appended for index i (none or one)
order_block_at(cs, i) ==
    LET c0 == At(cs, i)
        c1 == At(cs, i + 1)
        c2 == At(cs, i + 2)
        c3 == At(cs, i + 3)
        block(side) == [type |-> "OrderBlock", side |-> side,
                        zone |-> <<c0.low, c0.high>>, time |-> c0.time,
                        body_size |-> body_size_of(c0), volume |-> c0.volume]
    IN  IF too_small(c0) THEN <<>>
        ELSE IF Bullish(c1) /\ Bullish(c2) /\ Bullish(c3)
        THEN IF Bearish(c0) THEN <<block("bullish")>> ELSE <<>>
        ELSE IF Bearish(c1) /\ Bearish(c2) /\ Bearish(c3)
        THEN IF Bullish(c0) THEN <<block("bearish")>> ELSE <<>>
        ELSE <<>>

RECURSIVE order_block_loop(_, _)
order_block_loop(cs, i) ==
    IF i >= Len(cs) - 3 THEN <<>>
    ELSE order_block_at(cs, i) \o order_block_loop(cs, i + 1)

\* line 179: the sort key body_size * (volume or 0) of a is >= that of b
\* (fractions compared by cross multiplication, denominators are positive)
volume_or_0(e) == IF e.volume = Absent THEN 0 ELSE e.volume[1]

key_ge(a, b) ==
    a.body_size[1] * volume_or_0(a) * b.body_size[2]
        >= b.body_size[1] * volume_or_0(b) * a.body_size[2]

\* list.sort(key, reverse = True) is stable: e goes behind every element
\* whose key is greater or equal
insert_desc(sorted, e) ==
    LET ahead == Cardinality({k \in 1..Len(sorted) : key_ge(sorted[k], e)})
    IN  SubSeq(sorted, 1, ahead) \o <<e>> \o SubSeq(sorted, ahead + 1, Len(sorted))

RECURSIVE sort_desc(_)
sort_desc(events) ==
    IF events = <<>> THEN <<>>
    ELSE insert_desc(sort_desc(SubSeq(events, 1, Len(events) - 1)), Last(events))

\* the events returned in scan order, the sort left out
detect_order_blocks_Unsorted(cs, start) == order_block_loop(cs, start)

\* lines 135-180
detect_order_blocks(cs, start) == sort_desc(order_block_loop(cs, start))

\* the detectors scan the whole list, whatever the lookback
analyze_WholeList(cs, lb, tol) ==
    LET n     == Len(cs)
        start == 0
    IN  IF n < 3 THEN <<>>
        ELSE detect_equal_highs(cs, start, tol)
                \o detect_equal_lows(cs, start, tol)
                \o detect_fvg(cs, start)
                \o detect_order_blocks(cs, start)

\* a list of fewer than 3 candles answered with an InsufficientData entry
analyze_ShortListRejected(cs, lb, tol) ==
    LET n     == Len(cs)
        start == Max2(0, n - lb)
    IN  IF n < 3 THEN <<[type |-> "InsufficientData"]>>
        ELSE detect_equal_highs(cs, start, tol)
                \o detect_equal_lows(cs, start, tol)
                \o detect_fvg(cs, start)
                \o detect_order_blocks(cs, start)

\* the equal lows collected ahead of the equal highs
analyze_LowsFirst(cs, lb, tol) ==
    LET n     == Len(cs)
        start == Max2(0, n - lb)
    IN  IF n < 3 THEN <<>>
        ELSE detect_equal_lows(cs, start, tol)
                \o detect_equal_highs(cs, start, tol)
                \o detect_fvg(cs, start)
                \o detect_order_blocks(cs, start)

\* lines 22-35
analyze(cs, lb, tol) ==
    LET n     == Len(cs)
        start == Max2(0, n - lb)
    IN  IF n < 3 THEN <<>>
        ELSE detect_equal_highs(cs, start, tol)
                \o detect_equal_lows(cs, start, tol)
                \o detect_fvg(cs, start)
                \o detect_order_blocks(cs, start)

\* ------------------------------------------------------------------------
\* Crafted signal lists for the decision agent
\* ------------------------------------------------------------------------
CraftedPools ==
    {[type |-> "LiquidityPool", side |-> s, price |-> 100, times |-> <<1, 3>>]
        : s \in {"buy", "sell"}}

CraftedGaps ==
    {[type |-> "FairValueGap", side |-> s, gap_low |-> g[1], gap_high |-> g[2],
      time |-> 5] : s \in {"bullish", "bearish"}, g \in {<<100, 104>>, <<110, 111>>}}

CraftedBlocks ==
    {[type |-> "OrderBlock", side |-> s, zone |-> <<90, 95>>, time |-> 2,
      body_size |-> <<3, 92>>, volume |-> Some(2000)] : s \in {"bullish", "bearish"}}

CraftedSignals == CraftedPools \cup CraftedGaps \cup CraftedBlocks

\* ------------------------------------------------------------------------
\* Specification of the decision agent: a crafted signal list is evaluated
\* ------------------------------------------------------------------------
InitDecide ==
    /\ pc = "ready"
    /\ lookback = DefaultLookback
    /\ equal_tolerance = DefaultTolerance
    /\ candles = <<>>
    /\ signals \in SeqsUpTo(CraftedSignals, MaxSignals)
    /\ result = None
    /\ AnalyzerIdle
    /\ FetcherIdle
    /\ AlertsIdle
    /\ WatcherIdle

Evaluate ==
    /\ pc = "ready"
    /\ result' = evaluate_signals(signals)
    /\ pc' = "decided"
    /\ UNCHANGED <<lookback, equal_tolerance, candles, signals>>
    /\ UNCHANGED <<analyzerVars, fetcherVars>>
    /\ UNCHANGED <<alerts, watcherVars>>

NextDecide == Evaluate

SpecDecide == InitDecide /\ [][NextDecide]_vars

\* ------------------------------------------------------------------------
\* Specification of the liquidity pool scan: a candle list whose highs and
\* lows lie around two resting levels is analyzed
\* ------------------------------------------------------------------------
\* The two resting levels.  At these levels the float comparison of two
\* rounded prices that lie exactly one tolerance apart gives the result of the
\* decimal arithmetic used here (at 100.0 and 100.001 it does not).
HighLevel == 1001 * (PriceUnit \div 10)     \* 100.1, the level of the highs

LowLevel == 991 * (PriceUnit \div 10)       \* 99.1, the level of the lows

Far == 3 * DefaultTolerance

\* <<high, low>> of the candles; the sub-micro digits 4 and 6 round down and up
PoolShapes ==
    { <<HighLevel + 6, LowLevel + 4>>,
      <<HighLevel + 4, LowLevel + Far>>,
      <<HighLevel + DefaultTolerance + 8, LowLevel + Far>>,
      <<HighLevel - Far, LowLevel + 4>>,
      <<HighLevel - Far, LowLevel - DefaultTolerance + 2>> }

\* a candle without body, one minute after the other
FlatCandle(k, shape) ==
    [time |-> k - 1, open |-> shape[2], high |-> shape[1], low |-> shape[2],
     close |-> shape[2], volume |-> Absent]

LookbackSet == {4, DefaultLookback}

InitPools ==
    /\ pc = "ready"
    /\ lookback \in LookbackSet
    /\ equal_tolerance = DefaultTolerance
    /\ \E n \in 0..MaxCandles : \E f \in [1..n -> PoolShapes] :
          candles = [k \in 1..n |-> FlatCandle(k, f[k])]
    /\ signals = <<>>
    /\ result = None
    /\ AnalyzerIdle
    /\ FetcherIdle
    /\ AlertsIdle
    /\ WatcherIdle

Analyze ==
    /\ pc = "ready"
    /\ signals' = analyze(candles, lookback, equal_tolerance)
    /\ pc' = "analyzed"
    /\ UNCHANGED <<lookback, equal_tolerance, candles, result>>
    /\ UNCHANGED <<analyzerVars, fetcherVars>>
    /\ UNCHANGED <<alerts, watcherVars>>

NextPools == Analyze

SpecPools == InitPools /\ [][NextPools]_vars

\* ------------------------------------------------------------------------
\* Specification of the two-bar scenario: five or more candles with highs at
\* 100.00, 100.0005, 100.0015 and 99.998 are analyzed
\* ------------------------------------------------------------------------
Price100 == 100 * PriceUnit

TwoBarHighs ==
    { Price100, Price100 + DefaultTolerance \div 2,
      Price100 + 3 * (DefaultTolerance \div 2), Price100 - 2 * DefaultTolerance }

\* the lows lie one tolerance and more apart and never repeat
TwoBarCandle(k, high) ==
    [time |-> k - 1, open |-> 90 * PriceUnit + k * Far, high |-> high,
     low |-> 90 * PriceUnit + k * Far, close |-> 90 * PriceUnit + k * Far,
     volume |-> Absent]

InitTwoBars ==
    /\ pc = "ready"
    /\ lookback \in {5, DefaultLookback}
    /\ equal_tolerance = DefaultTolerance
    /\ \E n \in 5..(MaxCandles + 1) : \E f \in [1..n -> TwoBarHighs] :
          candles = [k \in 1..n |-> TwoBarCandle(k, f[k])]
    /\ signals = <<>>
    /\ result = None
    /\ AnalyzerIdle
    /\ FetcherIdle
    /\ AlertsIdle
    /\ WatcherIdle

SpecTwoBars == InitTwoBars /\ [][NextPools]_vars

\* ------------------------------------------------------------------------
\* Properties of the decision agent (checked under SpecDecide)
\* ------------------------------------------------------------------------
Decided == pc = "decided"

HasSignal(P(_)) == \E k \in 1..Len(signals) : P(signals[k])

\* the decision table of the specification, section 4.4
Rule1Matches ==
    /\ HasSignal(LAMBDA s : IsPool(s, "buy"))
    /\ HasSignal(LAMBDA s : IsFVG(s, "bearish"))

Rule2Matches ==
    /\ HasSignal(LAMBDA s : IsPool(s, "sell"))
    /\ HasSignal(LAMBDA s : IsFVG(s, "bullish"))

\* index of the last signal of the list that is a gap of the given side
IsLastGap(k, side) ==
    /\ k \in 1..Len(signals)
    /\ IsFVG(signals[k], side)
    /\ \A m \in (k + 1)..Len(signals) : ~IsFVG(signals[m], side)

\* C1: a signal list holding a buy-side LiquidityPool (equal highs) and a
\* bearish FairValueGap is answered with action = sell.
C1_Rule1Sells == (Decided /\ Rule1Matches) => result.action = "sell"

\* C2: when rule 1 does not match, a signal list holding a sell-side
\* LiquidityPool (equal lows) and a bullish FairValueGap is answered with
\* action = buy.
C2_Rule2Buys == (Decided /\ ~Rule1Matches /\ Rule2Matches) => result.action = "buy"

\* C3: when a qualifying short setup and a qualifying long setup are both
\* present, the answer is sell, never buy.
C3_ShortWins == (Decided /\ Rule1Matches /\ Rule2Matches) => result.action = "sell"

C3_Witness == Decided /\ Rule1Matches /\ Rule2Matches /\ result.action = "sell"

\* C4: a sell suggestion is computed from the last bearish gap of the list:
\* entry_zone = (gap_low, gap_high), entry = midpoint, stop_loss = gap_high *
\* 1.001, take_profit = entry - 2 * |entry - stop_loss|.
C4_SellFromLastBearishGap ==
    (Decided /\ result.action = "sell") =>
        \E k \in 1..Len(signals) :
            /\ IsLastGap(k, "bearish")
            /\ result.entry_zone = <<signals[k].gap_low, signals[k].gap_high>>
            /\ 1000 * result.stop_loss = 1001 * PriceScale * signals[k].gap_high
            /\ LET entry2 == PriceScale * (signals[k].gap_low + signals[k].gap_high)
               IN  2 * result.take_profit
                       = entry2 - 2 * Abs(entry2 - 2 * result.stop_loss)

\* a sell built from the last of two different bearish gaps
C4_Witness ==
    /\ Decided /\ result.action = "sell"
    /\ \E k, m \in 1..Len(signals) :
          /\ m < k /\ IsLastGap(k, "bearish") /\ IsFVG(signals[m], "bearish")
          /\ signals[m].gap_high # signals[k].gap_high
          /\ result.entry_zone = <<signals[k].gap_low, signals[k].gap_high>>

\* C5: a buy suggestion is computed from the last bullish gap of the list:
\* entry_zone = (gap_low, gap_high), entry = midpoint, stop_loss = gap_low *
\* 0.999, take_profit = entry + 2 * |entry - stop_loss|.
C5_BuyFromLastBullishGap ==
    (Decided /\ result.action = "buy") =>
        \E k \in 1..Len(signals) :
            /\ IsLastGap(k, "bullish")
            /\ result.entry_zone = <<signals[k].gap_low, signals[k].gap_high>>
            /\ 1000 * result.stop_loss = 999 * PriceScale * signals[k].gap_low
            /\ LET entry2 == PriceScale * (signals[k].gap_low + signals[k].gap_high)
               IN  2 * result.take_profit
                       = entry2 + 2 * Abs(entry2 - 2 * result.stop_loss)

\* a buy built from the last of two different bullish gaps
C5_Witness ==
    /\ Decided /\ result.action = "buy"
    /\ \E k, m \in 1..Len(signals) :
          /\ m < k /\ IsLastGap(k, "bullish") /\ IsFVG(signals[m], "bullish")
          /\ signals[m].gap_low # signals[k].gap_low
          /\ result.entry_zone = <<signals[k].gap_low, signals[k].gap_high>>

\* C24: stop and target lie on opposite sides of the entry zone.  A sell
\* from a gap with 0 < gap_low < gap_high has take_profit < gap_low <
\* gap_high < stop_loss; a buy from such a gap has stop_loss < gap_low <
\* gap_high < take_profit.
C24_StopAndTargetOutsideZone ==
    (Decided /\ result.action \in {"sell", "buy"}) =>
        LET gap_low  == result.entry_zone[1]
            gap_high == result.entry_zone[2]
        IN  (0 < gap_low /\ gap_low < gap_high) =>
                /\ result.action = "sell" =>
                       /\ result.take_profit < PriceScale * gap_low
                       /\ PriceScale * gap_high < result.stop_loss
                /\ result.action = "buy" =>
                       /\ result.stop_loss < PriceScale * gap_low
                       /\ PriceScale * gap_high < result.take_profit

\* a buy from the narrower crafted gap: the stop lies under the zone and the
\* target above it
C24_Witness ==
    /\ Decided /\ result.action = "buy"
    /\ 0 < result.entry_zone[1] /\ result.entry_zone[2] = result.entry_zone[1] + 1
    /\ result.stop_loss < PriceScale * result.entry_zone[1]
    /\ PriceScale * result.entry_zone[2] < result.take_profit

\* C6: when neither rule of the decision table matches, the answer is action
\* = none with entry_zone, stop_loss and take_profit all absent (in
\* particular for a list of order blocks only).
C6_NoRuleNoAction ==
    (Decided /\ ~Rule1Matches /\ ~Rule2Matches) =>
        /\ result.action = "none"
        /\ result.entry_zone = None
        /\ result.stop_loss = None
        /\ result.take_profit = None

\* ------------------------------------------------------------------------
\* Properties of the liquidity pool scan (checked under SpecPools)
\* ------------------------------------------------------------------------
Analyzed == pc = "analyzed"

NumCandles == Len(candles)

\* first index of the window scanned by analyze
WindowStart == Max2(0, NumCandles - lookback)

High(i) == At(candles, i).high

Low(i) == At(candles, i).low

\* the index of the candle stamped t (candle times are pairwise different)
IndexOf(t) == CHOOSE i \in 0..(NumCandles - 1) : At(candles, i).time = t

Pools(side) == SelectSeq(signals, LAMBDA s : IsPool(s, side))

AllPools == SelectSeq(signals, LAMBDA s : s.type = "LiquidityPool")

\* how many pools of the side were emitted for the pair (i, j)
Emitted(side, i, j) ==
    Cardinality({k \in 1..Len(Pools(side)) :
        Pools(side)[k].times = <<At(candles, i).time, At(candles, j).time>>})

\* the level of a pair and the breach of it, on the highs and lows as given
RawBreached(side, i, j) ==
    \E k \in WindowStart..(j - 1) :
        /\ k # i
        /\ IF side = "buy"
           THEN High(k) > Max2(High(i), High(j)) + equal_tolerance
           ELSE Low(k) < Min2(Low(i), Low(j)) - equal_tolerance

\* the same on the highs and lows of the pair rounded to 6 decimals
RoundedBreached(side, i, j) ==
    \E k \in WindowStart..(j - 1) :
        /\ k # i
        /\ IF side = "buy"
           THEN High(k) > Max2(round6(High(i)), round6(High(j))) + equal_tolerance
           ELSE Low(k) < Min2(round6(Low(i)), round6(Low(j))) - equal_tolerance

RawEqual(side, i, j) ==
    IF side = "buy" THEN Abs(High(i) - High(j)) <= equal_tolerance
    ELSE Abs(Low(i) - Low(j)) <= equal_tolerance

RoundedEqual(side, i, j) ==
    IF side = "buy" THEN Abs(round6(High(i)) - round6(High(j))) <= equal_tolerance
    ELSE Abs(round6(Low(i)) - round6(Low(j))) <= equal_tolerance

Sides == {"buy", "sell"}

\* C7 (as claimed): no candle k of the window before j, other than i, has a
\* high above max(high[i], high[j]) + tolerance (a low below min(low[i],
\* low[j]) - tolerance) for an emitted pool (i, j).
C7_NoBreachOfRawLevel ==
    Analyzed =>
        \A side \in Sides : \A k \in 1..Len(Pools(side)) :
            ~RawBreached(side, IndexOf(Pools(side)[k].times[1]),
                               IndexOf(Pools(side)[k].times[2]))

\* C7 (amended): for every emitted pool (i, j), no candle k of the window
\* before j, other than i, has a high above max(round6(high[i]),
\* round6(high[j])) + tolerance, respectively a low below min(round6(low[i]),
\* round6(low[j])) - tolerance.
C7_NoBreachOfRoundedLevel ==
    Analyzed =>
        \A side \in Sides : \A k \in 1..Len(Pools(side)) :
            ~RoundedBreached(side, IndexOf(Pools(side)[k].times[1]),
                                   IndexOf(Pools(side)[k].times[2]))

\* a pool of each side whose window holds candles before i and between i and j
C7_Witness ==
    /\ Analyzed
    /\ \A side \in Sides : \E k \in 1..Len(Pools(side)) :
          LET i == IndexOf(Pools(side)[k].times[1])
              j == IndexOf(Pools(side)[k].times[2])
          IN  WindowStart > 0 /\ WindowStart < i /\ j > i + 1

\* C8 (as claimed): a pair (i, j) of the window gets exactly one pool when
\* j >= i + 2, the highs (lows) differ by at most the tolerance and no candle
\* breaches the level, and no pool otherwise.
C8_OnePoolPerRawPair ==
    Analyzed =>
        \A side \in Sides : \A i, j \in 0..(NumCandles - 1) :
            Emitted(side, i, j) =
                IF /\ NumCandles >= 3 /\ WindowStart <= i /\ j >= i + 2
                   /\ RawEqual(side, i, j) /\ ~RawBreached(side, i, j)
                THEN 1 ELSE 0

\* C8 (amended): a pair (i, j) of the window gets exactly one buy-side
\* (sell-side) pool when j >= i + 2, the highs (lows) rounded to 6 decimals
\* differ by at most the tolerance and no candle of the window before j other
\* than i exceeds the rounded level by more than the tolerance; every other
\* pair, consecutive bars included, gets none.
C8_OnePoolPerRoundedPair ==
    Analyzed =>
        \A side \in Sides : \A i, j \in 0..(NumCandles - 1) :
            Emitted(side, i, j) =
                IF /\ NumCandles >= 3 /\ WindowStart <= i /\ j >= i + 2
                   /\ RoundedEqual(side, i, j) /\ ~RoundedBreached(side, i, j)
                THEN 1 ELSE 0

\* a level touched by three candles gives three pools, and two consecutive
\* bars with equal highs give none
C8_Witness ==
    /\ Analyzed
    /\ \E i, j, m \in 0..(NumCandles - 1) :
          /\ i < j /\ j < m
          /\ Emitted("buy", i, j) = 1 /\ Emitted("buy", j, m) = 1
          /\ Emitted("buy", i, m) = 1
    /\ \E i \in 0..(NumCandles - 2) :
          /\ WindowStart <= i /\ High(i) = High(i + 1)
          /\ Emitted("buy", i, i + 1) = 0

\* the pools of the sequence are listed by first index, then second index
SortedByPair(pools) ==
    \A a, b \in 1..Len(pools) :
        a < b =>
            LET ia == IndexOf(pools[a].times[1])
                ja == IndexOf(pools[a].times[2])
                ib == IndexOf(pools[b].times[1])
                jb == IndexOf(pools[b].times[2])
            IN  ia < ib \/ (ia = ib /\ ja <= jb)

\* C9 (as claimed): the LiquidityPool signals of analyze are in order of i
\* ascending, then j ascending.
C9_PoolsSortedByPair == Analyzed => SortedByPair(AllPools)

\* C9 (amended): the buy-side pools come first, in order of i ascending then j
\* ascending, and the sell-side pools follow, again in order of i ascending
\* then j ascending.
C9_PoolsSortedPerSide ==
    Analyzed =>
        /\ SortedByPair(Pools("buy"))
        /\ SortedByPair(Pools("sell"))
        /\ AllPools = Pools("buy") \o Pools("sell")

\* both sides emitted, each with pools of different first and of equal first index
C9_Witness ==
    /\ Analyzed
    /\ \A side \in Sides : \E a, b, c \in 1..Len(Pools(side)) :
          /\ a < b /\ b < c
          /\ Pools(side)[a].times[1] = Pools(side)[b].times[1]
          /\ Pools(side)[b].times[1] # Pools(side)[c].times[1]

\* ------------------------------------------------------------------------
\* The two-bar scenario (checked under SpecTwoBars)
\* ------------------------------------------------------------------------
\* the window holds a bar with high 100.00 at i and one with high 100.0005 at
\* i + 4, and the three bars between have highs of at most limit
TwoBarsAt(i, limit) ==
    /\ WindowStart <= i /\ i + 4 <= NumCandles - 1
    /\ High(i) = Price100
    /\ High(i + 4) = Price100 + DefaultTolerance \div 2
    /\ \A k \in (i + 1)..(i + 3) : High(k) <= limit

OnePoolAt100 ==
    /\ Len(Pools("buy")) = 1
    /\ Pools("buy")[1].price = Price100

\* C10 (as claimed): a window holding highs 100.00 and 100.0005 separated by
\* 3 bars, none with a high above 100.0015, gives exactly one buy-side pool,
\* priced 100.00.
C10_TwoBarsOnePool ==
    Analyzed =>
        \A i \in 0..(NumCandles - 1) :
            TwoBarsAt(i, Price100 + 3 * (DefaultTolerance \div 2)) => OnePoolAt100

\* C10 (amended): a window of exactly five bars, the first with high 100.00,
\* the last with high 100.0005 and the three between with highs of at most
\* 99.998, gives exactly one buy-side pool, priced 100.00 and stamped with the
\* times of the first and the last bar.
C10_FiveBarsOnePool ==
    (/\ Analyzed
     /\ NumCandles - WindowStart = 5
     /\ TwoBarsAt(WindowStart, Price100 - 2 * DefaultTolerance)) =>
        /\ OnePoolAt100
        /\ Emitted("buy", WindowStart, WindowStart + 4) = 1

\* the scenario as the last five of six candles
C10_Witness ==
    /\ Analyzed
    /\ WindowStart = 1 /\ NumCandles = 6
    /\ TwoBarsAt(1, Price100 - 2 * DefaultTolerance)
    /\ OnePoolAt100

\* ------------------------------------------------------------------------
\* Specification of the gap scan: one-minute candles with a body, starting
\* shortly before a window opens or closes, are analyzed
\* ------------------------------------------------------------------------
GapStep == 2 * DefaultTolerance

\* <<open, high, low, close>> in steps of GapStep: three rising (bullish)
\* candles, the middle one touching the high of the lowest, and two falling
RisingShapes == { <<10, 12, 9, 11>>, <<13, 15, 12, 14>>, <<14, 16, 13, 15>> }

FallingShapes == { <<15, 16, 13, 14>>, <<11, 12, 9, 10>> }

GapShapes == RisingShapes \cup FallingShapes

\* instants, in minutes since 2024-11-03 00:00 UTC
EasternStandard(hour, minute) == hour * 60 + minute + 5 * 60

EasternDaylightDayBefore(hour, minute) == hour * 60 + minute + 4 * 60 - 24 * 60

\* <<time of the first candle, lookback, shapes of the candles>>
GapRuns ==
    { <<EasternStandard(3, 57), DefaultLookback, GapShapes>>,
      <<EasternDaylightDayBefore(9, 57), DefaultLookback, RisingShapes>>,
      <<EasternStandard(13, 56), 4, FallingShapes \cup {<<10, 12, 9, 11>>}>> }

BodyCandle(k, shape, t0, vol) ==
    [time |-> t0 + k - 1, open |-> shape[1] * GapStep, high |-> shape[2] * GapStep,
     low |-> shape[3] * GapStep, close |-> shape[4] * GapStep, volume |-> vol]

InitGaps ==
    /\ pc = "ready"
    /\ equal_tolerance = DefaultTolerance
    /\ \E run \in GapRuns :
          /\ lookback = run[2]
          /\ \E n \in 0..MaxCandles : \E f \in [1..n -> run[3]] :
                candles = [k \in 1..n |-> BodyCandle(k, f[k], run[1], Absent)]
    /\ signals = <<>>
    /\ result = None
    /\ AnalyzerIdle
    /\ FetcherIdle
    /\ AlertsIdle
    /\ WatcherIdle

SpecGaps == InitGaps /\ [][NextPools]_vars

\* ------------------------------------------------------------------------
\* Properties of the gap scan (checked under SpecGaps)
\* ------------------------------------------------------------------------
Candle(i) == At(candles, i)

Gaps == SelectSeq(signals, LAMBDA s : s.type = "FairValueGap")

\* the indices scanned by the gap detector
GapIndices == WindowStart..(NumCandles - 3)

AllThree(i, P(_)) == P(Candle(i)) /\ P(Candle(i + 1)) /\ P(Candle(i + 2))

BullishGapAt(i) ==
    /\ AllThree(i, LAMBDA c : c.close > c.open)
    /\ Low(i + 2) > High(i)

BearishGapAt(i) ==
    /\ AllThree(i, LAMBDA c : c.close < c.open)
    /\ High(i + 2) < Low(i)

\* the local clock of the third candle of index i is inside a window
ThirdInWindow(i) ==
    LET m == astimezone_eastern(Candle(i + 2).time)
    IN  \/ m \in (3 * 60)..(4 * 60 - 1)
        \/ m \in (10 * 60)..(11 * 60 - 1)
        \/ m \in (14 * 60)..(15 * 60 - 1)

\* the gaps emitted for index i (they carry the time of candle i + 2)
GapsOf(i) == SelectSeq(Gaps, LAMBDA g : g.time = Candle(i + 2).time)

\* C11: for every scanned index i whose third candle is inside a window, a
\* bullish gap (high[i], low[i+2]) is emitted exactly when the three candles
\* close above their open and low[i+2] > high[i], a bearish gap (high[i+2],
\* low[i]) exactly when they close below their open and high[i+2] < low[i];
\* at most one gap per index, in ascending order of i.
C11_GapsDetected ==
    Analyzed =>
        /\ \A i \in GapIndices :
              ThirdInWindow(i) =>
                  /\ Len(GapsOf(i)) <= 1
                  /\ BullishGapAt(i) <=>
                        \E k \in 1..Len(GapsOf(i)) :
                            /\ GapsOf(i)[k].side = "bullish"
                            /\ GapsOf(i)[k].gap_low = High(i)
                            /\ GapsOf(i)[k].gap_high = Low(i + 2)
                  /\ BearishGapAt(i) <=>
                        \E k \in 1..Len(GapsOf(i)) :
                            /\ GapsOf(i)[k].side = "bearish"
                            /\ GapsOf(i)[k].gap_low = High(i + 2)
                            /\ GapsOf(i)[k].gap_high = Low(i)
        /\ \A a, b \in 1..Len(Gaps) :
              a < b => IndexOf(Gaps[a].time) < IndexOf(Gaps[b].time)
        /\ \A a \in 1..Len(Gaps) : IndexOf(Gaps[a].time) - 2 \in GapIndices

\* a gap emitted next to a touching trio, inside the same window, without gap
C11_Witness ==
    /\ Analyzed
    /\ \E i, m \in GapIndices :
          /\ ThirdInWindow(i) /\ ThirdInWindow(m)
          /\ BullishGapAt(i) /\ Len(GapsOf(i)) = 1
          /\ AllThree(m, LAMBDA c : c.close > c.open)
          /\ Low(m + 2) = High(m) /\ Len(GapsOf(m)) = 0

\* C12: every emitted gap has gap_low < gap_high.
C12_GapBoundsOrdered ==
    Analyzed => \A k \in 1..Len(Gaps) : Gaps[k].gap_low < Gaps[k].gap_high

C12_Witness ==
    /\ Analyzed
    /\ \E a \in 1..Len(Gaps) :
          /\ Gaps[a].side = "bearish"
          /\ Gaps[a].gap_low = High(IndexOf(Gaps[a].time))
          /\ Gaps[a].gap_low < Gaps[a].gap_high

\* a candidate gap: the three candles and the wicks qualify
Candidate(i) == BullishGapAt(i) \/ BearishGapAt(i)

\* C13: a candidate gap is emitted if and only if the Eastern clock time of
\* its third candle lies in [03:00, 04:00), [10:00, 11:00) or [14:00, 15:00);
\* otherwise it leaves no signal of any kind (the gaps are exactly those of
\* the candidates inside a window, and no other type of signal exists); an
\* emitted gap carries the time of the third candle.
C13_WindowFilter ==
    Analyzed =>
        /\ \A i \in GapIndices :
              Candidate(i) => (Len(GapsOf(i)) = 1 <=> ThirdInWindow(i))
        /\ Len(Gaps) = Cardinality({i \in GapIndices : Candidate(i) /\ ThirdInWindow(i)})
        /\ \A k \in 1..Len(signals) :
              signals[k].type \in {"LiquidityPool", "FairValueGap", "OrderBlock"}
        /\ \A k \in 1..Len(Gaps) :
              \E i \in GapIndices : Candidate(i) /\ Gaps[k].time = Candle(i + 2).time

\* one candidate kept at the last minute of a window and the next one, at
\* the full hour, dropped
C13_Witness ==
    /\ Analyzed
    /\ \E i \in GapIndices :
          /\ i + 1 \in GapIndices
          /\ Candidate(i) /\ Candidate(i + 1)
          /\ astimezone_eastern(Candle(i + 2).time) % 60 = 59
          /\ Len(GapsOf(i)) = 1 /\ Len(GapsOf(i + 1)) = 0

\* ------------------------------------------------------------------------
\* Specification of the order block scan: chains of a candidate candle and a
\* displacement of candles in one direction, the third candle of a
\* displacement being the next candidate, are analyzed
\* ------------------------------------------------------------------------
MaxBlocks == 2

\* every candle opens at 0.005, where a body of 0.000001 is the relative
\* body size 0.0002
BlockOpen == 5 * (PriceUnit \div 1000)

BodyUnit == BlockOpen \div (5 * 1000)

Directions == {1, -1}

\* <<body, volume>>: too small a body; the minimum body and volume; twice
\* the minimum body with a volume absent, 0, too low and at the minimum
BodiesAndVolumes ==
    { <<BodyUnit \div 2, Absent>>, <<BodyUnit, Some(min_volume)>>,
      <<2 * BodyUnit, Absent>>, <<2 * BodyUnit, Some(0)>>,
      <<2 * BodyUnit, Some(min_volume \div 2)>>, <<2 * BodyUnit, Some(min_volume)>> }

\* <<direction, body, volume>>
Candidates == {<<dir, bv[1], bv[2]>> : dir \in Directions, bv \in BodiesAndVolumes}

\* the k-th candle: the wicks widen with k, so that no two highs and no two
\* lows form a pool and no three candles leave a gap
BlockCandle(k, dir, body, vol) ==
    [time |-> k - 1, open |-> BlockOpen, close |-> BlockOpen + dir * body,
     high |-> BlockOpen + 10 * BodyUnit + 2 * k * BodyUnit,
     low |-> BlockOpen - 10 * BodyUnit - 2 * k * BodyUnit, volume |-> vol]

\* m candidates, each followed by two candles of direction dirs[g]; one more
\* candle of the last direction closes the list
BlockChain(m, cand, dirs) ==
    [k \in 1..(IF m = 0 THEN 0 ELSE 3 * m + 1) |->
        LET g == (k + 2) \div 3
        IN  IF k = 3 * m + 1 THEN BlockCandle(k, dirs[m], 2 * BodyUnit, Absent)
            ELSE IF k % 3 = 1
            THEN BlockCandle(k, cand[g][1], cand[g][2], cand[g][3])
            ELSE BlockCandle(k, dirs[g], 2 * BodyUnit, Absent)]

InitBlocks ==
    /\ pc = "ready"
    /\ equal_tolerance = DefaultTolerance
    /\ lookback = DefaultLookback
    /\ \E m \in 0..MaxBlocks :
          \E cand \in [1..m -> Candidates], dirs \in [1..m -> Directions] :
              candles = BlockChain(m, cand, dirs)
    /\ signals = <<>>
    /\ result = None
    /\ AnalyzerIdle
    /\ FetcherIdle
    /\ AlertsIdle
    /\ WatcherIdle

SpecBlocks == InitBlocks /\ [][NextPools]_vars

\* ------------------------------------------------------------------------
\* Properties of the order block scan (checked under SpecBlocks)
\* ------------------------------------------------------------------------
Blocks == SelectSeq(signals, LAMBDA s : s.type = "OrderBlock")

\* the indices scanned by the order block detector
BlockIndices == WindowStart..(NumCandles - 4)

\* volume is present (not null)
Present(c) == c.volume # Absent

\* body_size = |close - open| / open is at least 0.0002 (in ten-thousandths)
BodyAtLeastMinimum(close, open) == Abs(close - open) * 10000 >= 2 * open

\* the size and volume filter: the body is large enough and a present
\* volume is at least 1000
PassesFilter(c) ==
    /\ BodyAtLeastMinimum(c.close, c.open)
    /\ Present(c) => c.volume[1] >= 1000

Displacement(i, P(_)) == P(Candle(i + 1)) /\ P(Candle(i + 2)) /\ P(Candle(i + 3))

BullishBlockAt(i) ==
    /\ Displacement(i, LAMBDA c : c.close > c.open)
    /\ Candle(i).close < Candle(i).open

BearishBlockAt(i) ==
    /\ Displacement(i, LAMBDA c : c.close < c.open)
    /\ Candle(i).close > Candle(i).open

\* the blocks emitted for index i (they carry the time of candle i)
BlocksOf(i) == SelectSeq(Blocks, LAMBDA b : b.time = Candle(i).time)

CarriesCandle(b, i) ==
    /\ b.zone = <<Low(i), High(i)>>
    /\ b.time = Candle(i).time
    /\ b.body_size = <<Abs(Candle(i).close - Candle(i).open), Candle(i).open>>
    /\ b.volume = Candle(i).volume

\* C14: for every scanned index i that passes the size and volume filter, a
\* bullish block is emitted exactly when candles i+1..i+3 close above their
\* open and candle i below, a bearish block exactly when candles i+1..i+3
\* close below their open and candle i above; the block carries the zone
\* (low[i], high[i]), the time, the body size and the volume of candle i.
C14_BlocksDetected ==
    Analyzed =>
        \A i \in BlockIndices :
            PassesFilter(Candle(i)) =>
                /\ Len(BlocksOf(i)) <= 1
                /\ BullishBlockAt(i) <=>
                      \E k \in 1..Len(BlocksOf(i)) : BlocksOf(i)[k].side = "bullish"
                /\ BearishBlockAt(i) <=>
                      \E k \in 1..Len(BlocksOf(i)) : BlocksOf(i)[k].side = "bearish"
                /\ \A k \in 1..Len(BlocksOf(i)) : CarriesCandle(BlocksOf(i)[k], i)

\* a block on a candle at both thresholds, behind a candidate that passes
\* the filter and whose displacement is broken by its third candle
C14_Witness ==
    /\ Analyzed
    /\ \E i \in BlockIndices :
          /\ BullishBlockAt(i) /\ Len(BlocksOf(i)) = 1
          /\ Candle(i).volume = Some(1000)
          /\ Abs(Candle(i).close - Candle(i).open) * 10000 = 2 * Candle(i).open
    /\ \E m \in BlockIndices :
          /\ PassesFilter(Candle(m)) /\ Len(BlocksOf(m)) = 0
          /\ Candle(m).close < Candle(m).open
          /\ Candle(m + 1).close > Candle(m + 1).open
          /\ Candle(m + 2).close > Candle(m + 2).open

\* strength = body_size * (volume, or 0 when absent), a >= b
StrengthGe(a, b) ==
    LET vol(e) == IF e.volume = Absent THEN 0 ELSE e.volume[1]
    IN  a.body_size[1] * vol(a) * b.body_size[2] >= b.body_size[1] * vol(b) * a.body_size[2]

\* C15: the order blocks are sorted non-increasing by strength: of two
\* emitted blocks the earlier one in the list is at least as strong.
C15_BlocksSortedByStrength ==
    Analyzed => \A a, b \in 1..Len(Blocks) : a < b => StrengthGe(Blocks[a], Blocks[b])

\* the later candle is the stronger block and comes first
C15_Witness ==
    /\ Analyzed
    /\ Len(Blocks) = 2
    /\ Blocks[1].time > Blocks[2].time
    /\ ~StrengthGe(Blocks[2], Blocks[1])

\* C16: every emitted order block has body_size >= 0.0002 and, whenever its
\* volume is present (not null), a volume of at least 1000.
C16_BlocksAboveThresholds ==
    Analyzed =>
        \A k \in 1..Len(Blocks) :
            LET c == Candle(IndexOf(Blocks[k].time))
            IN  /\ BodyAtLeastMinimum(c.close, c.open)
                /\ Present(c) => c.volume[1] >= 1000

\* ------------------------------------------------------------------------
\* Short candle lists (checked under SpecPools)
\* ------------------------------------------------------------------------

\* C17: for a candle list with fewer than 3 candles (empty, one or two
\* candles) the analysis ends with an empty signal list, without an error.
C17_ShortListNoSignals ==
    (Analyzed /\ NumCandles < 3) => signals = <<>>

\* two candles with equal highs and equal lows, analyzed, no signal
C17_Witness ==
    /\ Analyzed
    /\ NumCandles = 2
    /\ High(0) = High(1) /\ Low(0) = Low(1)
    /\ signals = <<>>

\* ------------------------------------------------------------------------
\* Specification of analyze, call by call: the four detector calls of lines
\* 30-33 read the candle list, the window start and the tolerance only, and
\* each returns its own list.  The calls are let return in any order (the
\* code's own order, highs - lows - gaps - blocks, is one of them).
\* ------------------------------------------------------------------------
Detectors == {"equal_highs", "equal_lows", "fvg", "order_blocks"}

\* lines 30-33: the call of detector d
run_detector(d, cs, start, tol) ==
    CASE d = "equal_highs"  -> detect_equal_highs(cs, start, tol)
      [] d = "equal_lows"   -> detect_equal_lows(cs, start, tol)
      [] d = "fvg"          -> detect_fvg(cs, start)
      [] d = "order_blocks" -> detect_order_blocks(cs, start)

RECURSIVE InOrder(_, _)
InOrder(p, ord) ==
    IF ord = <<>> THEN <<>> ELSE p[ord[1]] \o InOrder(p, Tail(ord))

\* the outputs joined in the order in which the calls returned
Concatenate_AsCompleted(p, ord) == InOrder(p, ord)

\* lines 29-35: signals = [] extended by the output of each call, in the
\* order of the statements
Concatenate(p, ord) == p.equal_highs \o p.equal_lows \o p.fvg \o p.order_blocks

\* lines 27-28
ReturnEmpty ==
    /\ pc = "ready"
    /\ Len(candles) < 3
    /\ signals' = <<>>
    /\ pc' = "analyzed"
    /\ UNCHANGED <<lookback, equal_tolerance, candles, result, analyzerVars, fetcherVars>>
    /\ UNCHANGED <<alerts, watcherVars>>

RunDetector(d) ==
    /\ pc = "ready"
    /\ Len(candles) >= 3
    /\ \A k \in 1..Len(order) : order[k] # d
    /\ parts' = [parts EXCEPT
                    ![d] = run_detector(d, candles, Max2(0, Len(candles) - lookback),
                                        equal_tolerance)]
    /\ order' = Append(order, d)
    /\ UNCHANGED <<pc, lookback, equal_tolerance, candles, signals, result, fetcherVars>>
    /\ UNCHANGED <<alerts, watcherVars>>

\* line 35
Collect ==
    /\ pc = "ready"
    /\ Len(order) = Cardinality(Detectors)
    /\ signals' = Concatenate(parts, order)
    /\ pc' = "analyzed"
    /\ UNCHANGED <<lookback, equal_tolerance, candles, result, analyzerVars, fetcherVars>>
    /\ UNCHANGED <<alerts, watcherVars>>

\* a candle touching the first gap shape from below, a gap shape above it,
\* and a falling candle
DetectorShapes == { <<10, 12, 9, 11>>, <<14, 16, 13, 15>>, <<11, 12, 9, 10>> }

InitDetectors ==
    /\ pc = "ready"
    /\ equal_tolerance = DefaultTolerance
    /\ lookback = DefaultLookback
    /\ \E n \in 0..MaxCandles : \E f \in [1..n -> DetectorShapes] :
          candles = [k \in 1..n |-> BodyCandle(k, f[k], EasternStandard(3, 55), Absent)]
    /\ signals = <<>>
    /\ result = None
    /\ AnalyzerIdle
    /\ FetcherIdle
    /\ AlertsIdle
    /\ WatcherIdle

NextDetectors ==
    \/ ReturnEmpty
    \/ \E d \in Detectors : RunDetector(d)
    \/ Collect

SpecDetectors == InitDetectors /\ [][NextDetectors]_vars

\* ------------------------------------------------------------------------
\* Properties of the order of the signal list (checked under SpecDetectors)
\* ------------------------------------------------------------------------
TypeRank(s) ==
    CASE s.type = "LiquidityPool" -> 1
      [] s.type = "FairValueGap"  -> 2
      [] s.type = "OrderBlock"    -> 3

\* the list that the calls give when they return in the order of the code
SequentialList ==
    LET start == Max2(0, NumCandles - lookback)
    IN  IF NumCandles < 3 THEN <<>>
        ELSE run_detector("equal_highs", candles, start, equal_tolerance)
                \o run_detector("equal_lows", candles, start, equal_tolerance)
                \o run_detector("fvg", candles, start, equal_tolerance)
                \o run_detector("order_blocks", candles, start, equal_tolerance)

\* C18: the returned list holds all liquidity pools, then all gaps, then
\* all order blocks, and it is the same list in whichever order the detector
\* calls return.
C18_FixedConcatenation ==
    Analyzed =>
        /\ \A a, b \in 1..Len(signals) :
              a < b => TypeRank(signals[a]) <= TypeRank(signals[b])
        /\ signals = SequentialList

\* the block detector returned first and the pool detectors last, on a list
\* with signals of the three types
C18_Witness ==
    /\ Analyzed
    /\ order = <<"order_blocks", "fvg", "equal_lows", "equal_highs">>
    /\ \A r \in 1..3 : \E k \in 1..Len(signals) : TypeRank(signals[k]) = r

\* ------------------------------------------------------------------------
\* Specification of the construction: PatternAnalyzer(lookback,
\* equal_tolerance) is called with arguments in and out of range, then
\* analyze runs on the analyzer that the call returned
\* ------------------------------------------------------------------------
LookbackArgs == {-1, 4, DefaultLookback}

ToleranceArgs == {-DefaultTolerance, 0, DefaultTolerance}

\* lines 17-20: the arguments are stored, the call returns the analyzer
Construct ==
    /\ pc = "new"
    /\ \E lb \in LookbackArgs, tol \in ToleranceArgs :
          /\ lookback' = lb
          /\ equal_tolerance' = tol
    /\ pc' = "ready"
    /\ UNCHANGED <<candles, signals, result, analyzerVars, fetcherVars>>
    /\ UNCHANGED <<alerts, watcherVars>>

InitConstruct ==
    /\ pc = "new"
    /\ lookback = None
    /\ equal_tolerance = None
    /\ \E f \in [1..(MaxCandles - 2) -> PoolShapes] :
          candles = [k \in 1..(MaxCandles - 2) |-> FlatCandle(k, f[k])]
    /\ signals = <<>>
    /\ result = None
    /\ AnalyzerIdle
    /\ FetcherIdle
    /\ AlertsIdle
    /\ WatcherIdle

NextConstruct == Construct \/ Analyze

SpecConstruct == InitConstruct /\ [][NextConstruct]_vars

Constructed == pc \in {"ready", "analyzed"}

\* C19: the construction of an analyzer with a configuration out of range,
\* for example a negative equal_tolerance, is rejected: no analyzer with a
\* negative tolerance exists, and none runs a scan.
C19_NegativeToleranceRejected ==
    Constructed => equal_tolerance >= 0

\* ------------------------------------------------------------------------
\* YahooFinanceFetcher (backend/src/data_fetcher.py).  A row of the
\* provider's frame is [time, valid]: valid is FALSE for a row whose
\* conversion to a Candle raises (lines 127-139); a candle of the fetcher
\* is represented by its time.
\* ------------------------------------------------------------------------
MaxBars == 3        \* most rows in a frame of the provider

Symbols == {"AAPL"}

Intervals == {"1d", "5m"}

Limits == 0..(MaxBars - 1)

\* line 43
cache_ttl == 5

\* minutes between two looks at the clock: an entry is seen once before it
\* expires
ClockStep == cache_ttl - 2

\* the clock stops here
MaxClock == 2 * ClockStep

\* lines 28-39 and 64-74: the days of history of an interval
days_back(interval) ==
    CASE interval = "1d" -> 200
      [] interval = "5m" -> 30
      [] OTHER -> 60

\* market_calendar.py lines 18-32
is_market_hours(t) ==
    LET et     == astimezone_eastern(t)
        hour   == et \div 60
        minute == et % 60
    IN  /\ ~(hour < 9 \/ hour > 16)
        /\ ~(hour = 9 /\ minute < 30)
        /\ ~(hour = 16 /\ minute > 0)

\* market_calendar.py lines 82-84
filter_market_hours(cs) == SelectSeq(cs, is_market_hours)

\* df.tail(limit)
tail(df, limit) == SubSeq(df, Len(df) - Min2(limit, Len(df)) + 1, Len(df))

\* lines 91-115: the frame left by the three attempts, each of which raises
\* ("error"), answers without rows ("empty") or answers with the rows;
\* <<>> stands for the ValueError raised after the loop or in its last turn
RECURSIVE history_with_retry(_, _, _)
history_with_retry(attempts, rows, attempt) ==
    IF attempt > 3 THEN <<>>
    ELSE IF attempts[attempt] = "rows" THEN rows
    ELSE history_with_retry(attempts, rows, attempt + 1)

\* lines 125-139: the rows converted, those that raise skipped
to_candles(df) ==
    LET kept == SelectSeq(df, LAMBDA row : row.valid)
    IN  [k \in 1..Len(kept) |-> kept[k].time]

Raised(limit) == [status |-> "error", limit |-> limit, candles |-> <<>>]

Returns(limit, cs) == [status |-> "ok", limit |-> limit, candles |-> cs]

\* lines 45-155
fetch(symbol, interval, limit, attempts, rows) ==
    LET cache_key == <<symbol, interval, days_back(interval)>>
        hit       == /\ cache_key \in DOMAIN cache
                     /\ now - cache[cache_key][1] < cache_ttl
        df        == history_with_retry(attempts, rows, 1)
        trimmed   == IF limit # 0 THEN tail(df, limit) ELSE df
        cs        == to_candles(trimmed)
        inhours   == IF interval \in {"5m"} THEN filter_market_hours(cs) ELSE cs
    IN  IF hit
        THEN returned' = Returns(limit, cache[cache_key][2]) /\ UNCHANGED cache
        ELSE IF df = <<>> \/ cs = <<>> \/ inhours = <<>>
        THEN returned' = Raised(limit) /\ UNCHANGED cache
        ELSE /\ returned' = Returns(limit, inhours)
             /\ cache' = [key \in DOMAIN cache \cup {cache_key} |->
                             IF key = cache_key THEN <<now, inhours>> ELSE cache[key]]

\* the time of the k-th row of a frame: daily bars at midnight Eastern,
\* five-minute bars from 15:55 Eastern on (the market closes at 16:00)
RowTime(interval, k) ==
    IF interval = "1d" THEN EasternStandard(0, 0) + (k - 1) * 24 * 60
    ELSE EasternStandard(15, 55) + (k - 1) * 5

\* frames of n rows of which at most one (bad) does not convert
Frames(interval) ==
    UNION {{[k \in 1..n |-> [time |-> RowTime(interval, k), valid |-> k # bad]]
               : bad \in 0..n} : n \in 1..MaxBars}

Fetch ==
    /\ \E symbol \in Symbols, interval \in Intervals, limit \in Limits :
          \E attempts \in [1..3 -> {"error", "empty", "rows"}] :
              \E rows \in Frames(interval) :
                  fetch(symbol, interval, limit, attempts, rows)
    /\ UNCHANGED <<pc, lookback, equal_tolerance, candles, signals, result,
                   analyzerVars, now>>
    /\ UNCHANGED <<alerts, watcherVars>>

Tick ==
    /\ now + ClockStep <= MaxClock
    /\ now' = now + ClockStep
    /\ UNCHANGED <<pc, lookback, equal_tolerance, candles, signals, result,
                   analyzerVars, cache, returned>>
    /\ UNCHANGED <<alerts, watcherVars>>

InitFetch ==
    /\ pc = "ready"
    /\ lookback = DefaultLookback
    /\ equal_tolerance = DefaultTolerance
    /\ candles = <<>>
    /\ signals = <<>>
    /\ result = None
    /\ AnalyzerIdle
    /\ FetcherIdle
    /\ AlertsIdle
    /\ WatcherIdle

NextFetch == Fetch \/ Tick

SpecFetch == InitFetch /\ [][NextFetch]_vars

\* C20: in every sequence of fetch calls on one fetcher, a call with
\* limit L > 0 that returns normally returns at most L candles.
C20_AtMostLimitCandles ==
    (returned.status = "ok" /\ returned.limit > 0) =>
        Len(returned.candles) <= returned.limit

\* ------------------------------------------------------------------------
\* Specification of the lookback: lists of candles with a body, inside the
\* first window, are analyzed with lookbacks shorter and longer than the list
\* ------------------------------------------------------------------------
InitLookback ==
    /\ pc = "ready"
    /\ equal_tolerance = DefaultTolerance
    /\ lookback \in (1..MaxCandles) \cup {DefaultLookback}
    /\ \E n \in 0..MaxCandles : \E f \in [1..n -> DetectorShapes] :
          candles = [k \in 1..n |-> BodyCandle(k, f[k], EasternStandard(3, 55), Absent)]
    /\ signals = <<>>
    /\ result = None
    /\ AnalyzerIdle
    /\ FetcherIdle
    /\ AlertsIdle
    /\ WatcherIdle

SpecLookback == InitLookback /\ [][NextPools]_vars

\* the last min(n, lookback) candles
RecentCandles ==
    SubSeq(candles, NumCandles - Min2(NumCandles, lookback) + 1, NumCandles)

\* the times of the candles a signal refers to
TimesOf(s) == IF s.type = "LiquidityPool" THEN {s.times[1], s.times[2]} ELSE {s.time}

\* C21: the signals of a list are the signals of its last min(n, lookback)
\* candles, and no signal refers to a candle before index n - lookback.
C21_OnlyRecentCandles ==
    Analyzed =>
        /\ signals = analyze(RecentCandles, lookback, equal_tolerance)
        /\ \A k \in 1..Len(signals) : \A t \in TimesOf(signals[k]) :
              IndexOf(t) >= NumCandles - lookback

\* a list longer than the lookback that has a signal, and that would have
\* other signals if its older candles were scanned too
C21_Witness ==
    /\ Analyzed
    /\ NumCandles > lookback
    /\ signals # <<>>
    /\ signals # analyze(candles, NumCandles, equal_tolerance)

\* ------------------------------------------------------------------------
\* The legacy watcher (src/ict.py).  A row of its frame is a candle record;
\* prices are small integers.  An alert message is the record of the values
\* that its text is formatted from.
\* ------------------------------------------------------------------------
MaxRows == 4        \* most rows in a frame of the watcher

MaxPolls == 3       \* the watcher stops after so many symbols

\* two of the symbols of line 6
SYMBOLS == <<"^GSPC", "^DJI", "^IXIC">>

\* lines 43-68: the entries appended for index i
find_fvg_at(df, i) ==
    LET prev_high == At(df, i - 1).high
        next_low  == At(df, i + 1).low
        prev_low  == At(df, i - 1).low
        next_high == At(df, i + 1).high
        c         == At(df, i)
    IN  (IF c.close > c.open /\ prev_high < next_low
         THEN <<[type |-> "bullish", index |-> i, gap_top |-> prev_high,
                 gap_bottom |-> next_low, timestamp |-> c.time]>>
         ELSE <<>>)
        \o
        (IF c.close < c.open /\ prev_low > next_high
         THEN <<[type |-> "bearish", index |-> i, gap_top |-> prev_low,
                 gap_bottom |-> next_high, timestamp |-> c.time]>>
         ELSE <<>>)

RECURSIVE find_fvg_from(_, _)
find_fvg_from(df, i) ==
    IF i >= Len(df) - 1 THEN <<>>
    ELSE find_fvg_at(df, i) \o find_fvg_from(df, i + 1)

\* lines 35-69
find_fvg(df) == find_fvg_from(df, 1)

\* lines 81-104: the entries appended for index i
find_order_blocks_at(df, i) ==
    LET c      == At(df, i)
        next   == At(df, i + 1)
        lows3  == {At(df, i - 2).low, At(df, i - 1).low, c.low}
        highs3 == {At(df, i - 2).high, At(df, i - 1).high, c.high}
        block(type) == [type |-> type, index |-> i, zone_low |-> c.low,
                        zone_high |-> c.high]
    IN  (IF /\ c.close < c.open
            /\ \A l \in lows3 : c.low <= l
            /\ (next.close > c.high \/ next.high > c.high)
         THEN <<block("bullish")>> ELSE <<>>)
        \o
        (IF /\ c.close > c.open
            /\ \A h \in highs3 : c.high >= h
            /\ (next.close < c.low \/ next.low < c.low)
         THEN <<block("bearish")>> ELSE <<>>)

RECURSIVE find_order_blocks_from(_, _)
find_order_blocks_from(df, i) ==
    IF i >= Len(df) - 1 THEN <<>>
    ELSE find_order_blocks_at(df, i) \o find_order_blocks_from(df, i + 1)

\* lines 72-105
find_order_blocks(df) == find_order_blocks_from(df, 2)

\* max / min of a column from row `from` (0-based) to the end
MaxHighFrom(df, from) ==
    CHOOSE h \in {At(df, k).high : k \in from..(Len(df) - 1)} :
        \A k \in from..(Len(df) - 1) : At(df, k).high <= h

MinLowFrom(df, from) ==
    CHOOSE l \in {At(df, k).low : k \in from..(Len(df) - 1)} :
        \A k \in from..(Len(df) - 1) : At(df, k).low >= l

\* the message and the key are appended to what the call has collected
Alerted(acc, zone_key, msg) ==
    [alerts |-> Append(acc.alerts, msg),
     last_alerts |-> acc.last_alerts \cup {zone_key},
     keys |-> Append(acc.keys, zone_key),
     skipped |-> acc.skipped]

\* lines 121-122 and 144-145: the zone is passed over
Skipped(acc, zone_key) == [acc EXCEPT !.skipped = Append(acc.skipped, zone_key)]

\* a gap that is alerted is not recorded
alert_fvg_NotRecorded(symbol, current_price, fvg, acc) ==
    LET top      == fvg.gap_top
        bottom   == fvg.gap_bottom
        zone_key == <<fvg.type, "FVG", top, bottom>>
        msg      == [symbol |-> symbol, pattern |-> "FVG", type |-> fvg.type,
                     values |-> <<top, bottom>>]
        unrecorded == [Alerted(acc, zone_key, msg) EXCEPT !.last_alerts = acc.last_alerts]
    IN  IF zone_key \in acc.last_alerts THEN Skipped(acc, zone_key)
        ELSE IF fvg.type = "bullish" /\ current_price <= bottom THEN unrecorded
        ELSE IF fvg.type = "bearish" /\ current_price >= top THEN unrecorded
        ELSE acc

\* lines 116-136: one turn of the loop over fvg_list
alert_fvg(symbol, current_price, fvg, acc) ==
    LET top      == fvg.gap_top
        bottom   == fvg.gap_bottom
        zone_key == <<fvg.type, "FVG", top, bottom>>
        msg      == [symbol |-> symbol, pattern |-> "FVG", type |-> fvg.type,
                     values |-> <<top, bottom>>]
    IN  IF zone_key \in acc.last_alerts THEN Skipped(acc, zone_key)
        ELSE IF fvg.type = "bullish" /\ current_price <= bottom
        THEN Alerted(acc, zone_key, msg)
        ELSE IF fvg.type = "bearish" /\ current_price >= top
        THEN Alerted(acc, zone_key, msg)
        ELSE acc

\* lines 139-166: one turn of the loop over ob_list; the stop-loss is z_low
\* * 0.99 or z_high * 1.01, kept in hundredths
alert_ob(symbol, df, current_price, ob, acc) ==
    LET z_low    == ob.zone_low
        z_high   == ob.zone_high
        zone_key == <<ob.type, "OB", z_low, z_high>>
        inside   == z_low <= current_price /\ current_price <= z_high
        long     == [symbol |-> symbol, pattern |-> "OB", type |-> ob.type,
                     values |-> <<current_price, z_low * 99,
                                  MaxHighFrom(df, ob.index + 1)>>]
        short    == [symbol |-> symbol, pattern |-> "OB", type |-> ob.type,
                     values |-> <<current_price, z_high * 101,
                                  MinLowFrom(df, ob.index + 1)>>]
    IN  IF zone_key \in acc.last_alerts THEN Skipped(acc, zone_key)
        ELSE IF ob.type = "bullish" /\ inside THEN Alerted(acc, zone_key, long)
        ELSE IF ob.type = "bearish" /\ inside THEN Alerted(acc, zone_key, short)
        ELSE acc

RECURSIVE alert_fvgs(_, _, _, _)
alert_fvgs(symbol, current_price, fvg_list, acc) ==
    IF fvg_list = <<>> THEN acc
    ELSE alert_fvgs(symbol, current_price, Tail(fvg_list),
                    alert_fvg(symbol, current_price, Head(fvg_list), acc))

RECURSIVE alert_obs(_, _, _, _, _)
alert_obs(symbol, df, current_price, ob_list, acc) ==
    IF ob_list = <<>> THEN acc
    ELSE alert_obs(symbol, df, current_price, Tail(ob_list),
                   alert_ob(symbol, df, current_price, Head(ob_list), acc))

\* lines 108-167: the alerts returned, the dict as the call leaves it, the
\* keys of the alerts in the order of the alerts, and the keys passed over
generate_alerts(symbol, df, fvg_list, ob_list, last_alerts) ==
    LET current_price == Last(df).close
        start         == [alerts |-> <<>>, last_alerts |-> last_alerts, keys |-> <<>>,
                          skipped |-> <<>>]
    IN  alert_obs(symbol, df, current_price, ob_list,
                  alert_fvgs(symbol, current_price, fvg_list, start))

\* <<open, high, low, close>>
WatchShapes == { <<1, 2, 1, 2>>, <<3, 5, 3, 4>>, <<4, 4, 1, 3>> }

WatchRow(k, shape) ==
    [time |-> k - 1, open |-> shape[1], high |-> shape[2], low |-> shape[3],
     close |-> shape[4], volume |-> Absent]

\* lines 175-184: the body of the main loop for one symbol and its frame; the
\* loop over data.items() visits the symbols in the order of SYMBOLS
Poll ==
    /\ polls < MaxPolls
    /\ polls' = polls + 1
    /\ \E n \in 0..MaxRows : \E f \in [1..n -> WatchShapes] :
          LET symbol == SYMBOLS[(polls % Len(SYMBOLS)) + 1]
              df == [k \in 1..n |-> WatchRow(k, f[k])]
              out == generate_alerts(symbol, df, find_fvg(df), find_order_blocks(df),
                                     last_alerted_zones)
          IN  IF df = <<>>
              THEN UNCHANGED <<last_alerted_zones, new_alerts, alerted, skipped>>
              ELSE /\ last_alerted_zones' = out.last_alerts
                   /\ new_alerts' = out.alerts
                   /\ alerted' = alerted \o out.keys
                   /\ skipped' = out.skipped
    /\ UNCHANGED <<pc, lookback, equal_tolerance, candles, signals, result,
                   analyzerVars, fetcherVars, alerts>>

InitWatch ==
    /\ pc = "ready"
    /\ lookback = DefaultLookback
    /\ equal_tolerance = DefaultTolerance
    /\ candles = <<>>
    /\ signals = <<>>
    /\ result = None
    /\ AnalyzerIdle
    /\ FetcherIdle
    /\ AlertsIdle
    /\ WatcherIdle

NextWatch == Poll

SpecWatch == InitWatch /\ [][NextWatch]_vars

\* how often key was alerted
TimesAlerted(key) == Cardinality({k \in 1..Len(alerted) : alerted[k] = key})

\* C22: over the polls that share the dict, every zone key is alerted at
\* most once, and it is in the dict exactly when it has been alerted (so a
\* recorded key is never removed and never alerted again).
C22_OneAlertPerZone ==
    /\ \A k \in 1..Len(alerted) : TimesAlerted(alerted[k]) = 1
    /\ last_alerted_zones = {alerted[k] : k \in 1..Len(alerted)}

\* the last poll met a recorded gap and a recorded block again, passed over
\* both and alerted nothing
C22_Witness ==
    /\ polls >= 2
    /\ new_alerts = <<>>
    /\ \E a, b \in 1..Len(skipped) :
          /\ skipped[a][2] = "FVG" /\ skipped[b][2] = "OB"
          /\ TimesAlerted(skipped[a]) = 1 /\ TimesAlerted(skipped[b]) = 1

\* ------------------------------------------------------------------------
\* AlertGenerator (alert_generator.py) and its call from the API handler
\* ------------------------------------------------------------------------
\* dict.get(key): the value, or None when the signal has no such key
get(sig, key) == IF key \in DOMAIN sig THEN sig[key] ELSE None

\* "not x" for a value that is None or a tuple
falsy(x) == x = None \/ x = <<>>

\* f"{x:.4f}": the price in units of 0.0001, halves of a unit rounded up
format_4f(x) == (x + PriceUnit \div (2 * 10000)) \div (PriceUnit \div 10000)

\* an alert text: its opening words, the numbers and the times formatted into it
Text(opening, numbers, times) ==
    [opening |-> opening, numbers |-> numbers, times |-> times]

\* lines 8-66: the alerts that one signal adds to the list
alert_for(sig) ==
    LET stype == get(sig, "type")
    IN  IF stype = "LiquidityPool"
        THEN LET price == format_4f(get(sig, "price"))
                 times == get(sig, "times")
             IN  IF get(sig, "side") = "buy"
                 THEN <<Text("Equal highs", <<price, price>>, times)>>
                 ELSE <<Text("Equal lows", <<price>>, times)>>
        ELSE IF stype = "FairValueGap"
        THEN LET gap == get(sig, "gap")
             IN  IF falsy(gap) THEN <<>>
                 ELSE IF get(sig, "side") = "bullish"
                 THEN <<Text("Bullish Fair Value Gap",
                             <<format_4f(gap[1]), format_4f(gap[2])>>,
                             <<get(sig, "time")>>)>>
                 ELSE <<Text("Bearish Fair Value Gap",
                             <<format_4f(gap[1]), format_4f(gap[2])>>,
                             <<get(sig, "time")>>)>>
        ELSE IF stype = "OrderBlock"
        THEN LET zone == get(sig, "zone")
             IN  IF falsy(zone) THEN <<>>
                 ELSE IF get(sig, "side") = "bearish"
                 THEN <<Text("Bearish Order Block",
                             <<format_4f(zone[1]), format_4f(zone[2])>>,
                             <<get(sig, "time")>>)>>
                 ELSE <<Text("Bullish Order Block",
                             <<format_4f(zone[1]), format_4f(zone[2])>>,
                             <<get(sig, "time")>>)>>
        ELSE <<>>

\* lines 5-67
RECURSIVE AlertGenerator_generate_alerts(_)
AlertGenerator_generate_alerts(sigs) ==
    IF sigs = <<>> THEN <<>>
    ELSE alert_for(Head(sigs)) \o AlertGenerator_generate_alerts(Tail(sigs))

\* main.py line 72, after the analysis of line 71
GenerateAlerts ==
    /\ pc = "analyzed"
    /\ alerts' = AlertGenerator_generate_alerts(signals)
    /\ pc' = "alerted"
    /\ UNCHANGED <<lookback, equal_tolerance, candles, signals, result>>
    /\ UNCHANGED <<analyzerVars, fetcherVars, watcherVars>>

InitAlerts == InitDetectors

NextAlerts ==
    \/ Analyze
    \/ GenerateAlerts

SpecAlerts == InitAlerts /\ [][NextAlerts]_vars

\* the opening words of the text that describes signal s
OpeningOf(s) ==
    CASE s.type = "LiquidityPool" ->
            IF s.side = "buy" THEN "Equal highs" ELSE "Equal lows"
      [] s.type = "FairValueGap" ->
            IF s.side = "bullish" THEN "Bullish Fair Value Gap"
            ELSE "Bearish Fair Value Gap"
      [] s.type = "OrderBlock" ->
            IF s.side = "bullish" THEN "Bullish Order Block"
            ELSE "Bearish Order Block"

\* C23: generate_alerts returns one alert per signal of analyze, in the
\* order of the signals: the i-th alert describes the i-th signal.
C23_OneAlertPerSignal ==
    pc = "alerted" =>
        /\ Len(alerts) = Len(signals)
        /\ \A k \in 1..Len(signals) : alerts[k].opening = OpeningOf(signals[k])

====
